---- MODULE Spec2Model ----
(***************************************************************************)
(* Model of package loadfile (loadfile.go): the Loader's two-stage         *)
(* dispatch.  A Loader routes a filename to a TypeLoader by regexp match   *)
(* with a fallback (getReaderGetter, GetReader, GetReadCloser) and Load    *)
(* routes the same filename to a decoder by its extension, closing the     *)
(* reader when it is an io.Closer.                                         *)
(*                                                                         *)
(* Strings are sequences of one-character strings so that strings.Split,   *)
(* strings.ToLower and the regexp match are computed, not assumed.         *)
(***************************************************************************)
EXTENDS Integers, Sequences, FiniteSets

(***************************************************************************)
(* Bounds of the model.                                                    *)
(***************************************************************************)
MaxStreamLen == 2
MaxChunk == 2

(***************************************************************************)
(* Values.                                                                 *)
(***************************************************************************)
Nil == "nil"
NoErr == "nil"
NoDecoder == "none"

\* loadfile.go:82
ErrorNoReader == "No Loader matched the given filename"
\* loadfile.go:101
ErrBadMatch == "Impossible bad match passed to S3Loader"
ErrGetObject == "s3.GetObject failed"
ErrOpen == "os.Open failed"
ErrStub == "stub loader failed"
ErrRead == "read failed"
ErrSyntax == "syntax error"
ErrEOF == "EOF"
ErrClose == "close failed"

(***************************************************************************)
(* Strings.                                                                *)
(***************************************************************************)
Dot == "."
Slash == "/"

sJson == <<"j", "s", "o", "n">>
sXml == <<"x", "m", "l">>
sYml == <<"y", "m", "l">>
sYaml == <<"y", "a", "m", "l">>
sS3Scheme == <<"s", "3", ":", "/", "/">>

\* strings.ToLower on one character of the alphabet used by the identifiers
ToLowerChar(c) ==
    CASE c = "J" -> "j"
      [] c = "S" -> "s"
      [] c = "O" -> "o"
      [] c = "N" -> "n"
      [] c = "X" -> "x"
      [] c = "M" -> "m"
      [] c = "L" -> "l"
      [] c = "Y" -> "y"
      [] c = "A" -> "a"
      [] c = "T" -> "t"
      [] OTHER -> c

\* strings.ToLower
ToLower(s) ==
    [i \in 1..Len(s) |-> ToLowerChar(s[i])]

RECURSIVE SplitAcc(_, _, _, _, _)
SplitAcc(s, sep, i, cur, acc) ==
    IF i > Len(s)
    THEN Append(acc, cur)
    ELSE IF s[i] = sep
         THEN SplitAcc(s, sep, i + 1, <<>>, Append(acc, cur))
         ELSE SplitAcc(s, sep, i + 1, Append(cur, s[i]), acc)

\* strings.Split(s, sep) for a one-character separator: never empty
Split(s, sep) ==
    SplitAcc(s, sep, 1, <<>>, <<>>)

HasPrefix(s, p) ==
    /\ Len(s) >= Len(p)
    /\ SubSeq(s, 1, Len(p)) = p

\* Offsets of the character c in s
IndexesOf(s, c) ==
    {i \in 1..Len(s) : s[i] = c}

Min(S) ==
    CHOOSE x \in S : \A y \in S : x <= y

Max(S) ==
    CHOOSE x \in S : \A y \in S : x >= y

(***************************************************************************)
(* Patterns: the regexp keys of Loader.types.                              *)
(***************************************************************************)
reS3Filename == "reS3Filename"
reS3Scheme == "reS3Scheme"
Patterns == {reS3Filename, reS3Scheme}

\* reS3Filename.MatchString: s3:// then one or more non-slash characters,
\* a slash, and anything
MatchS3Filename(s) ==
    /\ HasPrefix(s, sS3Scheme)
    /\ LET rest == SubSeq(s, Len(sS3Scheme) + 1, Len(s))
           slashes == IndexesOf(rest, Slash)
       IN  /\ slashes # {}
           /\ Min(slashes) >= 2

\* re.MatchString(filename)
MatchString(re, s) ==
    CASE re = reS3Filename -> MatchS3Filename(s)
      [] re = reS3Scheme -> HasPrefix(s, <<"s", "3", ":">>)

(***************************************************************************)
(* Identifiers given to the Loader.                                        *)
(***************************************************************************)
Prefixes ==
    { <<>>, <<"s", "3", ":", "k">>, <<"s", "3", ":", "/", "/", "b", "/", "k">> }

Seps == { <<>>, <<".">> }

Suffixes ==
    { <<>>, sJson, <<"J", "S", "O", "N">>, sXml, sYml, sYaml, <<"t", "x", "t">> }

Examples ==
    { <<"a", ".", "j", "s", "o", "n">>, <<"a", ".", "J", "S", "O", "N">>,
      <<"a", ".", "Y", "m", "l">> }

Filenames ==
    { p \o s \o x : p \in Prefixes, s \in Seps, x \in Suffixes } \cup Examples

(***************************************************************************)
(* Readers.  A reader is what a TypeLoader hands back: nothing, a typed    *)
(* nil file (os.Open on failure) or a handle on a byte stream, which is    *)
(* an io.Closer or not and whose Close may fail.                           *)
(***************************************************************************)
NilReader ==
    [kind |-> "nil", closeable |-> FALSE, closeErr |-> NoErr]

\* the nil *os.File os.Open returns next to its error
NilFile ==
    [kind |-> "nilFile", closeable |-> TRUE, closeErr |-> NoErr]

Handles ==
    { [kind |-> "stream", closeable |-> cl, closeErr |-> ce] :
        cl \in BOOLEAN, ce \in {NoErr, ErrClose} }

\* r.(io.Closer) and r.(io.ReadCloser): every reader is an io.Reader
IsCloser(r) ==
    r.kind # "nil" /\ r.closeable

(***************************************************************************)
(* Streams: the bytes behind a handle, as its Read calls deliver them.     *)
(* A stream has len bytes; its first value is of grammar content and is    *)
(* complete (for junk: known to be malformed) at offset valueEnd; Read     *)
(* delivers avail bytes and then reports end of stream, or, when it stops  *)
(* short of it, an error (readErr).                                        *)
(***************************************************************************)
Contents == {"json", "xml", "yaml", "junk"}

EmptyStream ==
    [content |-> "empty", len |-> 0, valueEnd |-> 0, avail |-> 0, readErr |-> FALSE]

Streams ==
    { st \in [content : Contents, len : 1..MaxStreamLen, valueEnd : 1..MaxStreamLen,
              avail : 0..MaxStreamLen, readErr : BOOLEAN] :
        /\ st.valueEnd <= st.len
        /\ st.avail <= st.len
        /\ (st.readErr <=> st.avail < st.len) }
    \cup {EmptyStream}

(***************************************************************************)
(* TypeLoaders.                                                            *)
(***************************************************************************)
S3Loader == "S3Loader"
FileLoader == "FileLoader"
StubLoader == "StubLoader"

Providers == {S3Loader, FileLoader, StubLoader}

Returned(r, e) ==
    [reader |-> r, err |-> e]

\* S3Loader.GetReader: obj.Body is an io.ReadCloser
S3LoaderGetReader(filename) ==
    IF ~MatchS3Filename(filename)
    THEN { Returned(NilReader, ErrBadMatch) }
    ELSE { Returned(NilReader, ErrGetObject) }
         \cup { Returned(h, NoErr) : h \in {x \in Handles : x.closeable} }

\* FileLoader.GetReader: os.Open gives an *os.File, nil on failure
FileLoaderGetReader(filename) ==
    { Returned(NilFile, ErrOpen) }
    \cup { Returned(h, NoErr) : h \in {x \in Handles : x.closeable} }

\* a TypeLoader of the caller: any reader, closeable or not
StubLoaderGetReader(filename) ==
    { Returned(NilReader, ErrStub) }
    \cup { Returned(h, NoErr) : h \in {x \in Handles : ~x.closeable => x.closeErr = NoErr} }

\* TypeLoader.GetReader(filename): what the provider may hand back
TypeLoaderGetReader(provider, filename) ==
    CASE provider = S3Loader -> S3LoaderGetReader(filename)
      [] provider = FileLoader -> FileLoaderGetReader(filename)
      [] provider = StubLoader -> StubLoaderGetReader(filename)

(***************************************************************************)
(* What a call did to its collaborators, in order.                         *)
(***************************************************************************)
EvGetReader(provider, via, filename) ==
    [kind |-> "GetReader", who |-> provider, via |-> via, arg |-> filename]

EvReadAll ==
    [kind |-> "ReadAll", who |-> "ioutil", via |-> "", arg |-> <<>>]

EvDecode(decoder) ==
    [kind |-> "Decode", who |-> decoder, via |-> "", arg |-> <<>>]

EvClose(err) ==
    [kind |-> "Close", who |-> err, via |-> "", arg |-> <<>>]

EventsOf(evs, kind) ==
    SelectSeq(evs, LAMBDA e : e.kind = kind)

(***************************************************************************)
(* Loader.                                                                 *)
(***************************************************************************)
\* the orders in which a range over the map l.types may visit its keys
RangeOrders(types) ==
    LET keys == DOMAIN types
    IN  { o \in [1..Cardinality(keys) -> keys] :
            \A i, j \in 1..Cardinality(keys) : i # j => o[i] # o[j] }

RECURSIVE rangeTypes(_, _, _, _, _)
rangeTypes(types, fallback, filename, order, i) ==
    IF i > Len(order)
    THEN [provider |-> fallback, via |-> "fallback"]
    ELSE IF MatchString(order[i], filename)
         THEN [provider |-> types[order[i]], via |-> order[i]]
         ELSE rangeTypes(types, fallback, filename, order, i + 1)

getReaderGetterFallbackOnly(types, fallback, filename, order) ==
    [provider |-> fallback, via |-> "fallback"]

\* Loader.getReaderGetter
getReaderGetter(types, fallback, filename, order) ==
    rangeTypes(types, fallback, filename, order, 1)

\* what the getter chosen for filename may return
GetterReturns(rg, filename) ==
    IF rg.provider = Nil
    THEN { Returned(NilReader, NoErr) }
    ELSE TypeLoaderGetReader(rg.provider, filename)

LoaderGetReaderNoNilCheck(rg, filename, out) ==
    IF rg.provider = Nil
    THEN [events |-> <<>>, reader |-> NilReader,
          err |-> "invalid memory address or nil pointer dereference"]
    ELSE [events |-> <<EvGetReader(rg.provider, rg.via, filename)>>,
          reader |-> out.reader, err |-> out.err]

LoaderGetReaderRetry(rg, filename, out) ==
    IF rg.provider = Nil
    THEN [events |-> <<>>, reader |-> NilReader, err |-> ErrorNoReader]
    ELSE [events |-> IF out.err = NoErr
                     THEN <<EvGetReader(rg.provider, rg.via, filename)>>
                     ELSE <<EvGetReader(rg.provider, rg.via, filename),
                            EvGetReader(rg.provider, rg.via, filename)>>,
          reader |-> out.reader, err |-> out.err]

\* Loader.GetReader
LoaderGetReader(rg, filename, out) ==
    IF rg.provider = Nil
    THEN [events |-> <<>>, reader |-> NilReader, err |-> ErrorNoReader]
    ELSE [events |-> <<EvGetReader(rg.provider, rg.via, filename)>>,
          reader |-> out.reader, err |-> out.err]

\* ioutil.NopCloser
NopCloser(r) ==
    [reader |-> r, nop |-> TRUE]

AsIs(r) ==
    [reader |-> r, nop |-> FALSE]

LoaderGetReadCloserAlwaysNop(rg, filename, out) ==
    LET g == LoaderGetReader(rg, filename, out)
    IN  IF g.err # NoErr
        THEN [events |-> g.events, ret |-> AsIs(NilReader), err |-> g.err]
        ELSE [events |-> g.events, ret |-> NopCloser(g.reader), err |-> NoErr]

\* Loader.GetReadCloser
LoaderGetReadCloser(rg, filename, out) ==
    LET g == LoaderGetReader(rg, filename, out)
    IN  IF g.err # NoErr
        THEN [events |-> g.events, ret |-> AsIs(NilReader), err |-> g.err]
        ELSE IF IsCloser(g.reader)
             THEN [events |-> g.events, ret |-> AsIs(g.reader), err |-> NoErr]
             ELSE [events |-> g.events, ret |-> NopCloser(g.reader), err |-> NoErr]

(***************************************************************************)
(* Decoders.                                                               *)
(***************************************************************************)
JSON == "json"
XML == "xml"
YAML == "yaml"

\* whether the grammar of the decoder accepts the first value of the stream
\* (a JSON document is a YAML document; so is the empty one)
Accepts(decoder, content) ==
    CASE decoder = JSON -> content = "json"
      [] decoder = XML -> content = "xml"
      [] decoder = YAML -> content \in {"json", "yaml", "empty"}

\* the offset at which a decoder reading incrementally knows its result:
\* the end of the first value, or the first byte of another grammar
StopAt(decoder, st) ==
    IF Accepts(decoder, st.content) \/ st.content = "junk"
    THEN st.valueEnd
    ELSE 1

\* bytes taken from the reader by Read calls of chunk bytes each, made
\* until need bytes are buffered or Read stops delivering
ReadUntil(st, need, chunk) ==
    Min({st.avail, chunk * ((need + chunk - 1) \div chunk)})

\* json.NewDecoder(reader).Decode(into), xml.NewDecoder(reader).Decode(into)
NewDecoderDecode(decoder, st, chunk) ==
    LET need == StopAt(decoder, st)
        pos == IF st.len = 0 THEN 0 ELSE ReadUntil(st, need, chunk)
    IN  [events |-> <<EvDecode(decoder)>>,
         pos |-> pos,
         err |-> IF pos < need \/ st.len = 0
                 THEN (IF st.readErr THEN ErrRead ELSE ErrEOF)
                 ELSE IF Accepts(decoder, st.content) THEN NoErr ELSE ErrSyntax]

ReadAllFirstValue(st) ==
    [pos |-> Min({st.avail, st.valueEnd}),
     err |-> IF st.avail < st.valueEnd THEN ErrRead ELSE NoErr]

\* ioutil.ReadAll(reader)
ReadAll(st) ==
    [pos |-> st.avail, err |-> IF st.readErr THEN ErrRead ELSE NoErr]

\* yaml.Unmarshal(b, into)
yamlUnmarshal(st) ==
    IF Accepts(YAML, st.content) THEN NoErr ELSE ErrSyntax

\* the yml/yaml case of Load
ReadAllUnmarshal(st) ==
    LET b == ReadAll(st)
    IN  IF b.err # NoErr
        THEN [events |-> <<EvReadAll>>, pos |-> b.pos, err |-> b.err]
        ELSE [events |-> <<EvReadAll, EvDecode(YAML)>>, pos |-> b.pos,
              err |-> yamlUnmarshal(st)]

\* fileDotParts[len(fileDotParts)-1]
fileExtension(filename) ==
    LET fileDotParts == Split(filename, Dot)
    IN  fileDotParts[Len(fileDotParts)]

SwitchDecoderCaseSensitive(filename) ==
    LET ext == fileExtension(filename)
    IN  CASE ext = sJson -> JSON
          [] ext = sXml -> XML
          [] ext = sYml \/ ext = sYaml -> YAML
          [] OTHER -> JSON

\* the switch of Load on strings.ToLower(fileExtension)
SwitchDecoder(filename) ==
    LET ext == ToLower(fileExtension(filename))
    IN  CASE ext = sJson -> JSON
          [] ext = sXml -> XML
          [] ext = sYml \/ ext = sYaml -> YAML
          [] OTHER -> JSON

\* the decode step of Load
Decode(filename, st, chunk) ==
    LET decoder == SwitchDecoder(filename)
    IN  IF decoder = YAML
        THEN ReadAllUnmarshal(st)
        ELSE NewDecoderDecode(decoder, st, chunk)

DeferCloseMissing(reader) ==
    <<>>

\* defer readCloser.Close(): the error of Close is discarded
DeferClose(reader) ==
    IF IsCloser(reader) THEN <<EvClose(reader.closeErr)>> ELSE <<>>

\* Loader.Load
LoaderLoad(rg, filename, out, st, chunk) ==
    LET g == LoaderGetReader(rg, filename, out)
    IN  IF g.err # NoErr
        THEN [events |-> g.events, err |-> g.err, pos |-> 0, decoder |-> NoDecoder]
        ELSE LET d == Decode(filename, st, chunk)
             IN  [events |-> g.events \o d.events \o DeferClose(g.reader),
                  err |-> d.err, pos |-> d.pos,
                  decoder |-> SwitchDecoder(filename)]

(***************************************************************************)
(* Loaders under check: DefaultLoader and Loaders built from the bindings  *)
(* below, in every registration order.                                     *)
(***************************************************************************)
Bindings ==
    { <<reS3Filename, S3Loader>>, <<reS3Scheme, StubLoader>> }

Fallbacks == {Nil, FileLoader, StubLoader}

Range(seq) ==
    {seq[i] : i \in 1..Len(seq)}

Registrations ==
    UNION { { r \in [1..n -> Bindings] : \A i, j \in 1..n : i # j => r[i][1] # r[j][1] } :
            n \in 0..Cardinality(Bindings) }

\* the map a Loader holds after the bindings of r were put into it
TypesOf(r) ==
    [re \in {b[1] : b \in Range(r)} |-> (CHOOSE b \in Range(r) : b[1] = re)[2]]

(***************************************************************************)
(* State.                                                                  *)
(***************************************************************************)
VARIABLES
    types,       \* Loader.types
    fallback,    \* Loader.fallback
    registered,  \* the bindings of types in the order they were registered
    pc,          \* "idle", "returned" or "closed"
    op,          \* the method called
    filename,    \* its argument
    selected,    \* the getter getReaderGetter picked, and by which key
    acquired,    \* what that getter returned
    stream,      \* the bytes the reads of the call were served from
    events,      \* the calls made on collaborators, in order
    ret,         \* the reader and error returned
    decoder,     \* the decoder Load used
    pos          \* the read position in the stream

vars ==
    <<types, fallback, registered, pc, op, filename, selected, acquired,
      stream, events, ret, decoder, pos>>

loader ==
    <<types, fallback, registered>>

NoGetter ==
    [provider |-> Nil, via |-> ""]

Result(reader, nop, err) ==
    [reader |-> reader, nop |-> nop, err |-> err]

Idle ==
    /\ pc = "idle"
    /\ op = ""
    /\ filename = <<>>
    /\ selected = NoGetter
    /\ acquired = Returned(NilReader, NoErr)
    /\ stream = EmptyStream
    /\ events = <<>>
    /\ ret = Result(NilReader, FALSE, NoErr)
    /\ decoder = NoDecoder
    /\ pos = 0

Init ==
    /\ registered \in Registrations
    /\ types = TypesOf(registered)
    /\ fallback \in Fallbacks
    /\ Idle

\* Loader.Load(filename, into)
Load ==
    /\ pc = "idle"
    /\ \E f \in Filenames, order \in RangeOrders(types) :
         LET rg == getReaderGetter(types, fallback, f, order)
         IN  \E out \in GetterReturns(rg, f) :
               \E st \in (IF rg.provider # Nil /\ out.err = NoErr THEN Streams ELSE {EmptyStream}),
                  chunk \in 1..MaxChunk :
                 LET r == LoaderLoad(rg, f, out, st, chunk)
                 IN  /\ op' = "Load"
                     /\ filename' = f
                     /\ selected' = rg
                     /\ acquired' = out
                     /\ stream' = st
                     /\ events' = r.events
                     /\ ret' = Result(NilReader, FALSE, r.err)
                     /\ decoder' = r.decoder
                     /\ pos' = r.pos
    /\ pc' = "returned"
    /\ UNCHANGED loader

\* Loader.GetReader(filename)
GetReader ==
    /\ pc = "idle"
    /\ \E f \in Filenames, order \in RangeOrders(types) :
         LET rg == getReaderGetter(types, fallback, f, order)
         IN  \E out \in GetterReturns(rg, f) :
               LET r == LoaderGetReader(rg, f, out)
               IN  /\ op' = "GetReader"
                   /\ filename' = f
                   /\ selected' = rg
                   /\ acquired' = out
                   /\ events' = r.events
                   /\ ret' = Result(r.reader, FALSE, r.err)
    /\ pc' = "returned"
    /\ UNCHANGED <<loader, stream, decoder, pos>>

\* Loader.GetReadCloser(filename)
GetReadCloser ==
    /\ pc = "idle"
    /\ \E f \in Filenames, order \in RangeOrders(types) :
         LET rg == getReaderGetter(types, fallback, f, order)
         IN  \E out \in GetterReturns(rg, f) :
               LET r == LoaderGetReadCloser(rg, f, out)
               IN  /\ op' = "GetReadCloser"
                   /\ filename' = f
                   /\ selected' = rg
                   /\ acquired' = out
                   /\ events' = r.events
                   /\ ret' = Result(r.ret.reader, r.ret.nop, r.err)
    /\ pc' = "returned"
    /\ UNCHANGED <<loader, stream, decoder, pos>>

\* the caller closes the io.ReadCloser GetReadCloser gave it: the Close of
\* ioutil.NopCloser does nothing and returns nil
Close ==
    /\ pc = "returned"
    /\ op = "GetReadCloser"
    /\ ret.err = NoErr
    /\ events' = (IF ret.nop THEN events ELSE Append(events, EvClose(ret.reader.closeErr)))
    /\ pc' = "closed"
    /\ UNCHANGED <<loader, op, filename, selected, acquired, stream, ret, decoder, pos>>

\* the caller is done with the result; no state is kept across calls
Done ==
    /\ pc \in {"returned", "closed"}
    /\ pc' = "idle"
    /\ op' = ""
    /\ filename' = <<>>
    /\ selected' = NoGetter
    /\ acquired' = Returned(NilReader, NoErr)
    /\ stream' = EmptyStream
    /\ events' = <<>>
    /\ ret' = Result(NilReader, FALSE, NoErr)
    /\ decoder' = NoDecoder
    /\ pos' = 0
    /\ UNCHANGED loader

Next ==
    \/ Load
    \/ GetReader
    \/ GetReadCloser
    \/ Close
    \/ Done

Spec ==
    Init /\ [][Next]_vars

(***************************************************************************)
(* Properties.                                                             *)
(***************************************************************************)
Returned_(method) ==
    pc = "returned" /\ op = method

\* the positions in registration order of the bindings whose pattern matches
MatchingRegistered(f) ==
    {i \in 1..Len(registered) : MatchString(registered[i][1], f)}

GetReaderEvents ==
    EventsOf(events, "GetReader")

CloseEvents ==
    EventsOf(events, "Close")

\* a handle was acquired by the call
Acquired ==
    selected.provider # Nil /\ acquired.err = NoErr

\* the part of f after its last separator; all of f when it has none
AfterLastDot(f) ==
    IF IndexesOf(f, Dot) = {}
    THEN f
    ELSE SubSeq(f, Max(IndexesOf(f, Dot)) + 1, Len(f))

RecognizedTags ==
    {sJson, sXml, sYml, sYaml}

\* C1: when two registered patterns match the identifier, the provider of
\* the binding registered first is the one the Loader picks, on every call.
C1_EarliestRegisteredWins ==
    (pc # "idle" /\ Cardinality(MatchingRegistered(filename)) >= 2) =>
        LET b == registered[Min(MatchingRegistered(filename))]
        IN  selected = [provider |-> b[2], via |-> b[1]]

\* C2: Load closes the reader it acquired exactly once, after the decode
\* step and before returning, when the reader is a closer; it closes
\* nothing when the reader is no closer or when no reader was acquired.
C2_ReleasedExactlyOnce ==
    Returned_("Load") =>
        /\ Len(CloseEvents) = (IF Acquired /\ acquired.reader.closeable THEN 1 ELSE 0)
        /\ (CloseEvents # <<>> => events[Len(events)].kind = "Close")

C2_ClosedAfterReadFailure ==
    /\ Returned_("Load")
    /\ Acquired /\ acquired.reader.closeable
    /\ decoder = YAML /\ ret.err = ErrRead
    /\ Len(CloseEvents) = 1

\* C3: for an identifier matching a registered pattern exactly one provider
\* is invoked, it is bound to a pattern that matches, and it is not reached
\* as the fallback, with or without a fallback configured.
C3_MatchInvokesBoundProvider ==
    (pc # "idle" /\ MatchingRegistered(filename) # {}) =>
        /\ Len(GetReaderEvents) = 1
        /\ GetReaderEvents[1].via # "fallback"
        /\ \E i \in MatchingRegistered(filename) :
             /\ registered[i][1] = GetReaderEvents[1].via
             /\ registered[i][2] = GetReaderEvents[1].who

C3_BoundProviderDespiteFallback ==
    /\ Returned_("GetReader")
    /\ MatchingRegistered(filename) # {}
    /\ fallback # Nil
    /\ GetReaderEvents = <<EvGetReader(S3Loader, reS3Filename, filename)>>

\* C4: for an identifier matching no registered pattern the fallback is
\* invoked once with the raw identifier when there is one; when there is
\* none, the call returns ErrorNoReader and no reader, and invokes neither
\* a provider nor a decoder.
C4_NoMatchFallbackOrError ==
    (pc # "idle" /\ MatchingRegistered(filename) = {}) =>
        IF fallback # Nil
        THEN GetReaderEvents = <<EvGetReader(fallback, "fallback", filename)>>
        ELSE /\ events = <<>>
             /\ ret = Result(NilReader, FALSE, ErrorNoReader)
             /\ decoder = NoDecoder

C4_LoadWithoutProvider ==
    /\ Returned_("Load")
    /\ MatchingRegistered(filename) = {}
    /\ fallback = Nil
    /\ ret.err = ErrorNoReader

C6_UnrecognizedSuffixDefaultDecoder ==
    (/\ Returned_("Load") /\ decoder # NoDecoder
     /\ \/ IndexesOf(filename, Dot) = {}
        \/ ToLower(AfterLastDot(filename)) \notin RecognizedTags)
    => decoder = JSON

C8_ReleaseFailureSurfaced ==
    (Returned_("Load") /\ \E i \in 1..Len(CloseEvents) : CloseEvents[i].who = ErrClose)
    => ret.err # NoErr

\* C9: when the chosen provider fails, GetReader and Load return its error
\* unchanged, having invoked that provider once and nothing else: no other
\* provider, no decoder, no Close.
C9_ProviderFailurePropagates ==
    (/\ pc = "returned" /\ op \in {"Load", "GetReader"}
     /\ selected.provider # Nil /\ acquired.err # NoErr)
    => /\ ret.err = acquired.err
       /\ events = <<EvGetReader(selected.provider, selected.via, filename)>>
       /\ decoder = NoDecoder

C9_LoadAfterProviderFailure ==
    /\ Returned_("Load")
    /\ selected.via = reS3Filename
    /\ acquired.err = ErrGetObject
    /\ fallback # Nil
    /\ ret.err = ErrGetObject

\* C10: GetReadCloser returns an error and no reader, or no error and a
\* closer: the provider's own reader when that is a closer, else that
\* reader under a NopCloser.  It invokes the selected provider once and
\* closes nothing itself; closing the result closes the provider's reader
\* exactly when that was returned as is.
C10_GetReadCloser ==
    (op = "GetReadCloser" /\ pc # "idle") =>
        /\ (ret.err # NoErr => ret.reader = NilReader /\ ~ret.nop)
        /\ (ret.err = NoErr =>
              /\ Acquired
              /\ ret.reader = acquired.reader
              /\ (ret.nop <=> ~IsCloser(acquired.reader)))
        /\ (selected.provider # Nil =>
              GetReaderEvents = <<EvGetReader(selected.provider, selected.via, filename)>>)
        /\ (pc = "returned" => CloseEvents = <<>>)
        /\ (pc = "closed" =>
              CloseEvents = (IF ret.nop THEN <<>> ELSE <<EvClose(ret.reader.closeErr)>>))

C10_NopCloserClosed ==
    /\ op = "GetReadCloser"
    /\ pc = "closed"
    /\ ret.nop
    /\ ~acquired.reader.closeable
    /\ CloseEvents = <<>>

====
